---- MODULE Spec2Model ----
(***************************************************************************)
(* UIBaseElement (src/renderable/ui/uibaseelement.js): a clickable         *)
(* container with a tap-and-hold timer.  The widget's fields, the timer    *)
(* service's pending timers and the pointer-event registry are the state;  *)
(* every handler of the class is one action.                               *)
(***************************************************************************)
EXTENDS Integers, Sequences, FiniteSets, TLC

VARIABLES
    isClickable,    \* this.isClickable
    isHoldable,     \* this.isHoldable
    hover,          \* this.hover
    released,       \* this.released
    holdTimeout,    \* this.holdTimeout: a timer handle, or -1
    dirty,          \* this.dirty
    timers,         \* timer service: handle -> [elapsed, delay] of each pending timer
    timerId,        \* timer service: the last handle handed out
    registered,     \* pointer-event registry: event names registered for this widget
    active,         \* base Container activation state
    calls,          \* the hooks and collaborator calls made by the last operation, in order
    op,             \* the last operation and its event
    holdsInCycle,   \* onHold invocations since released last went from true to false
    holdsSinceClick,\* onHold invocations since the last effective clicked call
    relCount,       \* onRelease invocations since the last effective clicked call
    everPressed,    \* an effective clicked call has happened
    everHoldable,   \* isHoldable has been true at some point of the run
    everArmed,      \* timer.setTimeout has been called
    everHold,       \* onHold has been invoked
    earlyRelease,   \* the last effective release cancelled a pending timer, and no effective press followed
    deactPending,   \* the last onDeactivateEvent found a pending timer, and only hold() calls followed
    stalePress,     \* released = false was carried over an onDeactivateEvent, and no effective press followed
    rearmed         \* the last effective clicked call armed a timer while another was pending, and no release followed

widget == <<isClickable, isHoldable, hover, released, holdTimeout, dirty>>
env    == <<timers, timerId, registered, active>>
ghost  == <<holdsInCycle, holdsSinceClick, relCount, everPressed, everHoldable,
            everArmed, everHold, earlyRelease, deactPending, rearmed,
            stalePress>>
vars   == <<widget, env, calls, op, ghost>>

----------------------------------------------------------------------------
(* Bounds and program constants *)

MaxTimerId == 3          \* handles handed out in one run
MaxCount == 3            \* saturation of the invocation counters
holdThreshold == 250     \* this.holdThreshold
NoTimeout == -1          \* the 'none' value of this.holdTimeout
Buttons == {0, 1, 2}     \* event.button: primary, auxiliary, secondary
Deltas == {100, 150}     \* frame times (ms) the timer service is advanced by

PointerEvents == {"pointerdown", "pointerup", "pointercancel", "pointerenter", "pointerleave"}

----------------------------------------------------------------------------
(* Helpers *)

Min(a, b) == IF a < b THEN a ELSE b

Count(seq, c) == Cardinality({i \in DOMAIN seq : seq[i] = c})

Has(seq, c) == \E i \in DOMAIN seq : seq[i] = c

Log(s, c) == [s EXCEPT !.calls = Append(@, c)]

(* The handles of the timers pending in the timer service *)
Pending == DOMAIN timers

(* The program state as one record, so that a handler is a function of it. *)
Cur ==
    [isClickable |-> isClickable, isHoldable |-> isHoldable, hover |-> hover,
     released |-> released, holdTimeout |-> holdTimeout, dirty |-> dirty,
     timers |-> timers, timerId |-> timerId, registered |-> registered,
     active |-> active, calls |-> <<>>]

----------------------------------------------------------------------------
(* Collaborators: timer service, pointer-event registry, base Container *)

removeTimer(s, h) ==
    [s EXCEPT !.timers = [k \in (DOMAIN s.timers) \ {h} |-> s.timers[k]]]

clearTimeout(s, h) == Log(removeTimer(s, h), "clearTimeout")

setTimeout(s, delay) ==
    Log([s EXCEPT !.timerId = s.timerId + 1,
                  !.timers = (s.timerId + 1 :> [elapsed |-> 0, delay |-> delay]) @@ s.timers],
        "setTimeout")

registerPointerEvent(s, name) ==
    Log(Log([s EXCEPT !.registered = @ \cup {name}], "registerPointerEvent"), name)

releasePointerEvent(s, name) ==
    Log(Log([s EXCEPT !.registered = @ \ {name}], "releasePointerEvent"), name)

superOnActivateEvent(s) == Log([s EXCEPT !.active = TRUE], "super.onActivateEvent")

superOnDeactivateEvent(s) == Log([s EXCEPT !.active = FALSE], "super.onDeactivateEvent")

----------------------------------------------------------------------------
(* Hooks: to be extended; the defaults change nothing *)

onClick(s) == Log(s, "onClick")
onOver(s) == Log(s, "onOver")
onOut(s) == Log(s, "onOut")
onRelease(s) == Log(s, "onRelease")
onHold(s) == Log(s, "onHold")

----------------------------------------------------------------------------
(* The handlers *)

clickedGate_anyButton(s, event) == s.isClickable

clickedGate(s, event) == event.button = 0 /\ s.isClickable

armGate_always(s) == TRUE

armGate(s) == s.isHoldable

rearm_noClear(s) ==
    LET t == setTimeout(s, holdThreshold)
    IN  [t EXCEPT !.holdTimeout = t.timerId, !.released = FALSE]

rearm(s) ==
    LET c == clearTimeout(s, s.holdTimeout)
        t == setTimeout(c, holdThreshold)
    IN  [t EXCEPT !.holdTimeout = t.timerId, !.released = FALSE]

clicked(s, event) ==
    IF clickedGate(s, event)
    THEN LET s1 == [s EXCEPT !.dirty = TRUE, !.released = FALSE]
         IN  onClick(IF armGate(s1) THEN rearm(s1) ELSE s1)
    ELSE s

enter_noHover(s) == onOver([s EXCEPT !.dirty = TRUE])

enter(s) == onOver([s EXCEPT !.hover = TRUE, !.dirty = TRUE])

releaseGate_always(s) == TRUE

releaseGate(s) == s.released = FALSE

releaseBody_keepHandle(s) ==
    LET s1 == [s EXCEPT !.released = TRUE, !.dirty = TRUE]
    IN  onRelease(clearTimeout(s1, s1.holdTimeout))

releaseBody_noClear(s) ==
    LET s1 == [s EXCEPT !.released = TRUE, !.dirty = TRUE]
    IN  onRelease([s1 EXCEPT !.holdTimeout = NoTimeout])

releaseBody_noHook(s) ==
    LET s1 == [s EXCEPT !.released = TRUE, !.dirty = TRUE]
        s2 == clearTimeout(s1, s1.holdTimeout)
    IN  [s2 EXCEPT !.holdTimeout = NoTimeout]

releaseBody(s) ==
    LET s1 == [s EXCEPT !.released = TRUE, !.dirty = TRUE]
        s2 == clearTimeout(s1, s1.holdTimeout)
    IN  onRelease([s2 EXCEPT !.holdTimeout = NoTimeout])

release(s) == IF releaseGate(s) THEN releaseBody(s) ELSE s

leave_outFirst(s) == release(onOut([s EXCEPT !.hover = FALSE, !.dirty = TRUE]))

leave_noRelease(s) == onOut([s EXCEPT !.hover = FALSE, !.dirty = TRUE])

leave(s) == onOut(release([s EXCEPT !.hover = FALSE, !.dirty = TRUE]))

holdGate_inverted(s) == s.released

holdGate_checksGates(s) == ~s.released /\ s.isHoldable /\ s.isClickable

holdGate(s) == ~s.released

hold(s) ==
    LET s1 == clearTimeout(s, s.holdTimeout)
        s2 == [s1 EXCEPT !.holdTimeout = NoTimeout, !.dirty = TRUE]
    IN  IF holdGate(s2) THEN onHold(s2) ELSE s2

onActivateEvent_superFirst(s) ==
    LET s0 == superOnActivateEvent(s)
        s1 == registerPointerEvent(s0, "pointerdown")
        s2 == registerPointerEvent(s1, "pointerup")
        s3 == registerPointerEvent(s2, "pointercancel")
        s4 == registerPointerEvent(s3, "pointerenter")
    IN  registerPointerEvent(s4, "pointerleave")

onActivateEvent(s) ==
    LET s1 == registerPointerEvent(s, "pointerdown")
        s2 == registerPointerEvent(s1, "pointerup")
        s3 == registerPointerEvent(s2, "pointercancel")
        s4 == registerPointerEvent(s3, "pointerenter")
        s5 == registerPointerEvent(s4, "pointerleave")
    IN  superOnActivateEvent(s5)

onDeactivateEvent_resetReleased(s) ==
    LET s1 == releasePointerEvent(s, "pointerdown")
        s2 == releasePointerEvent(s1, "pointerup")
        s3 == releasePointerEvent(s2, "pointercancel")
        s4 == releasePointerEvent(s3, "pointerenter")
        s5 == releasePointerEvent(s4, "pointerleave")
        s6 == clearTimeout(s5, s5.holdTimeout)
    IN  superOnDeactivateEvent([s6 EXCEPT !.holdTimeout = NoTimeout, !.released = TRUE])

onDeactivateEvent_noClear(s) ==
    LET s1 == releasePointerEvent(s, "pointerdown")
        s2 == releasePointerEvent(s1, "pointerup")
        s3 == releasePointerEvent(s2, "pointercancel")
        s4 == releasePointerEvent(s3, "pointerenter")
        s5 == releasePointerEvent(s4, "pointerleave")
    IN  superOnDeactivateEvent([s5 EXCEPT !.holdTimeout = NoTimeout])

onDeactivateEvent(s) ==
    LET s1 == releasePointerEvent(s, "pointerdown")
        s2 == releasePointerEvent(s1, "pointerup")
        s3 == releasePointerEvent(s2, "pointercancel")
        s4 == releasePointerEvent(s3, "pointerenter")
        s5 == releasePointerEvent(s4, "pointerleave")
        s6 == clearTimeout(s5, s5.holdTimeout)
    IN  superOnDeactivateEvent([s6 EXCEPT !.holdTimeout = NoTimeout])

----------------------------------------------------------------------------
(* The timer service's update: advance every pending timer, fire the due ones *)

advance(s, dt) ==
    [s EXCEPT !.timers = [h \in DOMAIN s.timers |->
                            [s.timers[h] EXCEPT !.elapsed = @ + dt]]]

Due(s) == {h \in DOMAIN s.timers : s.timers[h].elapsed >= s.timers[h].delay}

Lowest(S) == CHOOSE h \in S : \A k \in S : h <= k

RECURSIVE fireDue(_, _)
fireDue(s, due) ==
    IF due = {} THEN s
    ELSE LET h == Lowest(due)
         IN  fireDue(IF h \in DOMAIN s.timers THEN removeTimer(hold(s), h) ELSE s,
                     due \ {h})

update(s, dt) == LET a == advance(s, dt) IN fireDue(a, Due(a))

----------------------------------------------------------------------------
(* State machine *)

Init ==
    /\ isClickable = TRUE
    /\ isHoldable = FALSE
    /\ hover = FALSE
    /\ released = TRUE
    /\ holdTimeout = NoTimeout
    /\ dirty = FALSE
    /\ timers = <<>>
    /\ timerId = 0
    /\ registered = {}
    /\ active = FALSE
    /\ calls = <<>>
    /\ op = [name |-> "constructor", type |-> "none", button |-> 0]
    /\ holdsInCycle = 0
    /\ holdsSinceClick = 0
    /\ relCount = 0
    /\ everPressed = FALSE
    /\ everHoldable = FALSE
    /\ everArmed = FALSE
    /\ everHold = FALSE
    /\ earlyRelease = FALSE
    /\ deactPending = FALSE
    /\ rearmed = FALSE
    /\ stalePress = FALSE

(* The program goes from Cur to r. *)
Apply(r) ==
    /\ r.timerId <= MaxTimerId
    /\ isClickable' = r.isClickable
    /\ isHoldable' = r.isHoldable
    /\ hover' = r.hover
    /\ released' = r.released
    /\ holdTimeout' = r.holdTimeout
    /\ dirty' = r.dirty
    /\ timers' = r.timers
    /\ timerId' = r.timerId
    /\ registered' = r.registered
    /\ active' = r.active
    /\ calls' = r.calls

(* What the properties observe of the step from Cur to r made by operation o,
   besides the operation itself, which each action records in op. *)
Record(o, r) ==
    \E pressed \in {Has(r.calls, "onClick")},
       nHold \in {Count(r.calls, "onHold")},
       nRelease \in {Count(r.calls, "onRelease")} :
    /\ holdsInCycle' = IF pressed /\ released THEN 0
                       ELSE Min(holdsInCycle + nHold, MaxCount)
    /\ holdsSinceClick' = IF pressed THEN 0 ELSE Min(holdsSinceClick + nHold, MaxCount)
    /\ relCount' = IF pressed THEN 0 ELSE Min(relCount + nRelease, MaxCount)
    /\ everPressed' = (everPressed \/ pressed)
    /\ everHoldable' = (everHoldable \/ r.isHoldable)
    /\ everArmed' = (everArmed \/ Has(r.calls, "setTimeout"))
    /\ everHold' = (everHold \/ nHold > 0)
    /\ earlyRelease' = IF pressed THEN FALSE
                       ELSE IF nRelease > 0 THEN Pending # {}
                       ELSE earlyRelease
    /\ deactPending' = IF o.name = "onDeactivateEvent" THEN Pending # {}
                       ELSE IF o.name = "hold" THEN deactPending
                       ELSE FALSE
    /\ rearmed' = IF pressed THEN Has(r.calls, "setTimeout") /\ Pending # {}
                  ELSE IF nRelease > 0 THEN FALSE
                  ELSE rearmed
    /\ stalePress' = IF o.name = "onDeactivateEvent" THEN ~r.released
                     ELSE IF pressed \/ released THEN FALSE
                     ELSE stalePress

Op(name) == [name |-> name, type |-> "none", button |-> 0]

Clicked ==
    \E b \in Buttons :
      /\ op' = [name |-> "clicked", type |-> "pointerdown", button |-> b]
      /\ \E r \in {clicked(Cur, [type |-> "pointerdown", button |-> b])} :
            Apply(r) /\ Record(op', r)

Release ==
    \E t \in {"pointerup", "pointercancel"} :
      /\ op' = [name |-> "release", type |-> t, button |-> 0]
      /\ \E r \in {release(Cur)} : Apply(r) /\ Record(op', r)

Enter ==
    /\ op' = [name |-> "enter", type |-> "pointerenter", button |-> 0]
    /\ \E r \in {enter(Cur)} : Apply(r) /\ Record(op', r)

Leave ==
    /\ op' = [name |-> "leave", type |-> "pointerleave", button |-> 0]
    /\ \E r \in {leave(Cur)} : Apply(r) /\ Record(op', r)

(* The timer service's update, called by the game loop with the frame time *)
TimerUpdate ==
    /\ op' = Op("update")
    /\ \E dt \in Deltas :
         \E r \in {update(Cur, dt)} : Apply(r) /\ Record(op', r)

Activate ==
    /\ op' = Op("onActivateEvent")
    /\ \E r \in {onActivateEvent(Cur)} : Apply(r) /\ Record(op', r)

Deactivate ==
    /\ op' = Op("onDeactivateEvent")
    /\ \E r \in {onDeactivateEvent(Cur)} : Apply(r) /\ Record(op', r)

(* The public fields isClickable and isHoldable are set by the widget's owner *)
SetClickable ==
    /\ op' = Op("setClickable")
    /\ \E b \in BOOLEAN :
         \E r \in {[Cur EXCEPT !.isClickable = b]} : Apply(r) /\ Record(op', r)

SetHoldable ==
    /\ op' = Op("setHoldable")
    /\ \E b \in BOOLEAN :
         \E r \in {[Cur EXCEPT !.isHoldable = b]} : Apply(r) /\ Record(op', r)

(* The renderer has drawn the widget: the dirty flag is consumed *)
Draw ==
    /\ op' = Op("draw")
    /\ \E r \in {[Cur EXCEPT !.dirty = FALSE]} : Apply(r) /\ Record(op', r)

(* hold() called directly, with no timer behind the call *)
HoldCall ==
    /\ op' = Op("hold")
    /\ \E r \in {hold(Cur)} : Apply(r) /\ Record(op', r)

Next ==
    \/ Clicked
    \/ Release
    \/ Enter
    \/ Leave
    \/ TimerUpdate
    \/ Activate
    \/ Deactivate
    \/ SetClickable
    \/ SetHoldable
    \/ Draw

Spec == Init /\ [][Next]_vars

NextSim == Next \/ HoldCall

SpecSim == Init /\ [][NextSim]_vars

(* The game loop keeps calling the timer service's update: a pending timer
   does not wait forever for the next frame. *)
LiveSpec == Init /\ [][Next]_vars /\ WF_vars(Pending # {} /\ TimerUpdate)

(* The handlers as the pointer-event registry delivers them: an event reaches
   the widget only while a callback is registered for it. *)
PointerDown == "pointerdown" \in registered /\ Clicked

PointerUp ==
    \E t \in {"pointerup", "pointercancel"} :
      /\ t \in registered
      /\ op' = [name |-> "release", type |-> t, button |-> 0]
      /\ \E r \in {release(Cur)} : Apply(r) /\ Record(op', r)

PointerEnter == "pointerenter" \in registered /\ Enter

PointerLeave == "pointerleave" \in registered /\ Leave

NextDispatch ==
    \/ PointerDown
    \/ PointerUp
    \/ PointerEnter
    \/ PointerLeave
    \/ TimerUpdate
    \/ Activate
    \/ Deactivate
    \/ SetClickable
    \/ SetHoldable
    \/ Draw

SpecDispatch == Init /\ [][NextDispatch]_vars

----------------------------------------------------------------------------
(* Properties *)

Handles == 1..MaxTimerId

(* C1: in every reachable state, if released is true then no hold timer is
   pending and holdTimeout is the 'none' value -1. *)
C1_ReleasedNoTimer == released => (Pending = {} /\ holdTimeout = NoTimeout)

C1_Witness ==
    /\ released /\ everArmed
    /\ op.name = "release" /\ Has(calls, "clearTimeout")

(* C2, as claimed: onHold is invoked at most once between the step that makes
   released false and the next step that makes it true, whatever the number of
   clicked calls and timer fires in between, and only while released is false. *)
C2_OncePerPressCycle ==
    /\ holdsInCycle <= 1
    /\ Has(calls, "onHold") => ~released

(* C2, amended: onHold is invoked at most once after each effective clicked
   call (button 0 while isClickable), and only by a timer fire that finds
   released false. *)
C2_OncePerClick ==
    /\ holdsSinceClick <= 1
    /\ Has(calls, "onHold") => (~released /\ op.name = "update")

C2_Witness ==
    /\ op.name = "update" /\ Has(calls, "onHold")
    /\ holdsSinceClick = 1 /\ holdsInCycle = 2

(* C3: after onDeactivateEvent has been called with a hold timer pending, no
   timer is pending, holdTimeout is -1, and a hold() call that follows does
   not invoke onHold. *)
C3_NoHoldAfterDeactivate ==
    /\ (op.name = "onDeactivateEvent" /\ deactPending)
          => (Pending = {} /\ holdTimeout = NoTimeout)
    /\ (op.name = "hold" /\ deactPending) => ~Has(calls, "onHold")

(* C4: release is idempotent: onRelease is invoked at most once between two
   effective presses; a release call made while released is true, or right
   after another release call, invokes nothing and leaves released,
   holdTimeout, dirty and the pending timers unchanged. *)
C4_ReleaseIdempotent ==
    /\ [](relCount <= 1)
    /\ [][(op'.name = "release" /\ (released \/ op.name = "release"))
            => (calls' = <<>> /\ UNCHANGED <<released, holdTimeout, dirty, timers>>)]_vars

C4_Witness ==
    /\ op.name = "release" /\ calls = <<>>
    /\ relCount = 1 /\ everArmed /\ ~dirty

(* C5: a clicked call with event.button # 0, or made while isClickable is
   false, changes none of released, dirty, hover, holdTimeout and the pending
   timers, arms and cancels no timer and does not invoke onClick. *)
C5_IneffectiveClick ==
    [][(op'.name = "clicked" /\ (op'.button # 0 \/ ~isClickable))
         => (calls' = <<>>
             /\ UNCHANGED <<released, dirty, hover, holdTimeout, timers, timerId>>)]_vars

C5_Witness ==
    /\ op.name = "clicked" /\ op.button # 0 /\ isClickable /\ isHoldable
    /\ calls = <<>> /\ ~dirty /\ ~released /\ Pending # {}

(* C6: right after any leave call released is true, hover is false, no hold
   timer is pending and holdTimeout is -1. *)
C6_LeaveReleases ==
    op.name = "leave"
      => (released /\ ~hover /\ Pending = {} /\ holdTimeout = NoTimeout)

C6_Witness ==
    /\ op.name = "leave" /\ earlyRelease
    /\ calls = <<"clearTimeout", "onRelease", "onOut">>

(* C7: while isHoldable has never been true, setTimeout has never been called,
   holdTimeout is -1, no timer is pending and onHold has never been invoked. *)
C7_NotHoldableNeverArmed ==
    ~everHoldable
      => (~everArmed /\ holdTimeout = NoTimeout /\ Pending = {} /\ ~everHold)

C7_Witness ==
    /\ ~everHoldable /\ everPressed /\ ~released
    /\ op.name = "update"

(* C8: once a release has cancelled the pending hold timer, and until the next
   effective press, no timer is pending and onHold has not been invoked since
   the press. *)
C8_EarlyReleaseNoHold ==
    earlyRelease
      => (holdsSinceClick = 0 /\ Pending = {} /\ holdTimeout = NoTimeout)

C8_Witness ==
    /\ earlyRelease /\ released
    /\ op.name = "update" /\ calls = <<>>

(* C9: a hold timer armed by a press and pending with released false does not
   stay pending forever; it goes away either by a release, a leave, a
   deactivation or a re-press, or by firing, and when it fires onHold is
   invoked exactly once, holdTimeout is -1 afterwards, no timer is pending
   and released is still false. *)
Armed(h) == holdTimeout = h /\ h \in Pending /\ ~released

C9_HoldEventuallyFires ==
    /\ \A h \in Handles : [](Armed(h) => <>(~Armed(h)))
    /\ [][\A h \in Handles :
            (Armed(h) /\ ~Armed(h)')
              => \/ op'.name \in {"release", "leave", "onDeactivateEvent", "clicked"}
                 \/ /\ op'.name = "update"
                    /\ Count(calls', "onHold") = 1
                    /\ holdTimeout' = NoTimeout
                    /\ Pending' = {}
                    /\ ~released']_vars

C9_Witness ==
    /\ op.name = "update" /\ calls = <<"clearTimeout", "onHold">>
    /\ ~released /\ holdTimeout = NoTimeout /\ Pending = {}

(* C10: right after a release call that follows an effective press, released
   is true, holdTimeout is -1, no timer is pending, and onRelease has been
   invoked exactly once since that press. *)
C10_PressThenRelease ==
    (op.name = "release" /\ everPressed)
      => (released /\ holdTimeout = NoTimeout /\ Pending = {} /\ relCount = 1)

C10_Witness ==
    /\ op.name = "release" /\ Has(calls, "onRelease")
    /\ holdsSinceClick = 1

(* C11: onActivateEvent registers the five pointer callbacks, in the order
   pointerdown, pointerup, pointercancel, pointerenter, pointerleave, and only
   then runs the base Container activation; onDeactivateEvent releases the
   five, cancels the hold timer and clears holdTimeout, and only then runs the
   base Container deactivation. *)
C11_LifecycleOrder ==
    /\ op.name = "onActivateEvent"
         => /\ calls = <<"registerPointerEvent", "pointerdown",
                         "registerPointerEvent", "pointerup",
                         "registerPointerEvent", "pointercancel",
                         "registerPointerEvent", "pointerenter",
                         "registerPointerEvent", "pointerleave",
                         "super.onActivateEvent">>
            /\ registered = PointerEvents
    /\ op.name = "onDeactivateEvent"
         => /\ calls = <<"releasePointerEvent", "pointerdown",
                         "releasePointerEvent", "pointerup",
                         "releasePointerEvent", "pointercancel",
                         "releasePointerEvent", "pointerenter",
                         "releasePointerEvent", "pointerleave",
                         "clearTimeout",
                         "super.onDeactivateEvent">>
            /\ registered = {}
            /\ holdTimeout = NoTimeout
            /\ Pending = {}

C11_Witness ==
    /\ op.name = "onDeactivateEvent" /\ deactPending
    /\ ~active /\ registered = {} /\ ~released

(* C12: in every reachable state at most one hold timer is pending, and a
   pending timer's handle is the value of holdTimeout; a clicked call that
   arms a timer leaves exactly the new timer pending, not yet elapsed; and
   after a re-press made while a timer was pending, onHold is invoked at most
   once. *)
C12_SingleTimer ==
    /\ Cardinality(Pending) <= 1
    /\ Pending # {} => Pending = {holdTimeout}
    /\ (op.name = "clicked" /\ Has(calls, "setTimeout"))
          => /\ calls = <<"clearTimeout", "setTimeout", "onClick">>
             /\ Pending = {timerId}
             /\ holdTimeout = timerId
             /\ timers[timerId].elapsed = 0
    /\ rearmed => holdsSinceClick <= 1

C12_Witness ==
    /\ rearmed /\ holdsSinceClick = 1 /\ Pending = {}
    /\ op.name = "update" /\ calls = <<"clearTimeout", "onHold">>

(* C13: a leave call made while released is false cancels the hold timer,
   then invokes onRelease once, then invokes onOut once, and leaves no timer
   pending; a leave call made while released is true invokes onOut once and
   nothing else. *)
C13_LeaveOrder ==
    [][op'.name = "leave"
         => IF ~released
            THEN calls' = <<"clearTimeout", "onRelease", "onOut">> /\ Pending' = {}
            ELSE calls' = <<"onOut">>]_vars

C13_Witness ==
    /\ op.name = "leave" /\ calls = <<"clearTimeout", "onRelease", "onOut">>
    /\ relCount = 1 /\ rearmed = FALSE /\ everArmed /\ holdsSinceClick = 0

(* C14: the five pointer callbacks are registered exactly while the widget is
   active; while it is not active no handler has been delivered since the
   deactivation, no timer is pending, and the last operation invoked none of
   the hooks. *)
Hooks == {"onClick", "onRelease", "onOver", "onOut", "onHold"}

C14_RegisteredWhileActive ==
    /\ registered = IF active THEN PointerEvents ELSE {}
    /\ ~active
         => /\ op.name \notin {"clicked", "release", "enter", "leave"}
            /\ \A i \in DOMAIN calls : calls[i] \notin Hooks
            /\ Pending = {}

C14_Witness ==
    /\ ~active /\ registered = {} /\ ~released /\ everArmed /\ hover
    /\ op.name = "update" /\ calls = <<>>

(* C15: onDeactivateEvent leaves released, hover, isClickable, isHoldable and
   dirty unchanged, so a widget deactivated while pressed keeps released
   false; and a release or leave that finds released false invokes onRelease
   and sets released, whether or not a press occurred since the activation. *)
C15_DeactivateKeepsPress ==
    [][/\ op'.name = "onDeactivateEvent"
            => UNCHANGED <<released, hover, isClickable, isHoldable, dirty, timerId>>
       /\ (op'.name \in {"release", "leave"} /\ ~released)
            => (Has(calls', "onRelease") /\ released')]_vars

C15_Witness ==
    /\ active /\ stalePress
    /\ op.name \in {"release", "leave"} /\ Has(calls, "onRelease")

(* C16: isClickable and isHoldable are read by clicked only.  Setting either
   leaves released, holdTimeout and the pending timer as they are; a pending
   timer that fires invokes onHold whatever the two fields are then; and a
   release that finds released false sets released, cancels the timer and
   invokes onRelease whatever the two fields are then. *)
C16_GatesReadAtPress ==
    [][/\ op'.name \in {"setClickable", "setHoldable"}
            => (calls' = <<>> /\ UNCHANGED <<released, holdTimeout, timers, timerId>>)
       /\ (op'.name = "update" /\ Pending # {} /\ Pending' = {})
            => (calls' = <<"clearTimeout", "onHold">> /\ ~released')
       /\ (op'.name = "release" /\ ~released)
            => /\ calls' = <<"clearTimeout", "onRelease">>
               /\ released' /\ holdTimeout' = NoTimeout /\ Pending' = {}]_vars

C16_Witness ==
    /\ ~isClickable /\ ~isHoldable
    /\ op.name = "update" /\ calls = <<"clearTimeout", "onHold">>

C16_WitnessRelease ==
    /\ ~isClickable /\ ~isHoldable /\ earlyRelease
    /\ op.name = "release" /\ calls = <<"clearTimeout", "onRelease">>

(* C17: hover is false after construction, every enter leaves it true, every
   leave leaves it false, and no other operation (clicked, release, hold,
   the timer update, onActivateEvent, onDeactivateEvent, a draw, an
   assignment of isClickable or isHoldable) changes it; so hover is true
   exactly when the most recent enter or leave was an enter.  An enter
   also leaves released, holdTimeout and the pending timer unchanged. *)
C17_HoverTracksEnterLeave ==
    /\ ~hover
    /\ [][/\ op'.name = "enter"
               => (hover' /\ UNCHANGED <<released, holdTimeout, timers, timerId>>)
          /\ op'.name = "leave" => ~hover'
          /\ op'.name \notin {"enter", "leave"} => UNCHANGED hover]_vars

C17_Witness ==
    /\ op.name = "enter" /\ hover /\ calls = <<"onOver">>
    /\ ~released /\ Pending # {} /\ holdTimeout \in Pending

====
